---- MODULE Spec2Model ----
(***************************************************************************)
(* Polynomial multiplication (hw4_mult_polynomials): the Polynomial value  *)
(* type, the naive convolution, and the thresholded Toom-3 kernel with its *)
(* recursion unfolded into an explicit call stack.                         *)
(*                                                                         *)
(* Coefficients are f64 in the source.  They are modelled as exact         *)
(* rationals <<numerator, denominator>> in lowest terms with a positive    *)
(* denominator, so that the divisions by 2, 6, 12 and 24 of the            *)
(* interpolation step are computed and not assumed away.                   *)
(***************************************************************************)
EXTENDS Integers, Sequences, FiniteSets, TLC

(* ------------------------------ bounds --------------------------------- *)
\* longest operand built (13 is the first length whose chunks split again)
MaxLen == 13
\* every 0/1 coefficient vector up to this length is an operand
MaxDense == 5
\* largest requested threshold
MaxThr == 6

(* ------------------------- program constants --------------------------- *)
\* std::cmp::max(threshold, 5)
MinThreshold == 5
\* thresholded_multiply_impl(a, b, 5) in cook_tooms_k3_impl
CookThreshold == 5
\* benchmark range of Polynomial::random(-10.0, 10.0, size)
RangeMax == 10

(* --------------------------- f64 arithmetic ---------------------------- *)
Abs(x) == IF x < 0 THEN -x ELSE x

Min(x, y) == IF x < y THEN x ELSE y

Max(x, y) == IF x < y THEN y ELSE x

\* usize::saturating_sub
SatSub(x, y) == IF x < y THEN 0 ELSE x - y

RECURSIVE GCD(_, _)
GCD(x, y) == IF y = 0 THEN x ELSE GCD(y, x % y)

\* the value n/d (d > 0) in lowest terms
Rat(n, d) == LET g == GCD(Abs(n), d) IN <<n \div g, d \div g>>

FromInt(k) == <<k, 1>>

Zero == <<0, 1>>

RAdd(x, y) == Rat(x[1] * y[2] + y[1] * x[2], x[2] * y[2])

RSub(x, y) == Rat(x[1] * y[2] - y[1] * x[2], x[2] * y[2])

RMul(x, y) == Rat(x[1] * y[1], x[2] * y[2])

\* x / k.0 for a positive literal k
RDiv(x, k) == Rat(x[1], x[2] * k)

\* |c| < 1e-12.  Every value the model builds has a denominator dividing a
\* small power of 24, so its magnitude is below 1e-12 exactly when it is 0.
NearZero(c) == c[1] = 0

Zeros(len) == [i \in 1..len |-> Zero]

(* ----------------------------- Polynomial ------------------------------ *)
\* Polynomial::new: while the last coefficient is near zero, pop it; what
\* stays is the prefix up to the last coefficient that is not near zero
New(coeffs) ==
    LET kept == {i \in 1..Len(coeffs) : ~NearZero(coeffs[i])}
        last == IF kept = {} THEN 0 ELSE CHOOSE i \in kept : \A j \in kept : j <= i
    IN SubSeq(coeffs, 1, last)

\* Polynomial::degree
Degree(coeffs) == IF Len(coeffs) = 0 THEN 0 ELSE Len(coeffs) - 1

(* ------------------------- naive_multiply_impl ------------------------- *)
\* variant: result[i + j] = a[i] * b[j], an assignment in place of +=
NaiveInner_Assign(a, b, i, k, acc) ==
    IF i <= k /\ k - i < Len(b) THEN RMul(a[i + 1], b[k - i + 1]) ELSE acc

\* what the inner loop  for j in 0..m { result[i + j] += a[i] * b[j] }  of
\* row i does to result[k], whose value before the row is acc: the one j
\* with i + j = k, if there is one, adds a[i] * b[j]
NaiveInner(a, b, i, k, acc) ==
    IF i <= k /\ k - i < Len(b) THEN RAdd(acc, RMul(a[i + 1], b[k - i + 1])) ELSE acc

\* what the outer loop  for i in 0..n { ... }  does to result[k] from row i on
RECURSIVE NaiveOuter(_, _, _, _, _)
NaiveOuter(a, b, i, k, acc) ==
    IF i = Len(a) THEN acc
    ELSE NaiveOuter(a, b, i + 1, k, NaiveInner(a, b, i, k, acc))

\* variant: an empty operand is taken for the constant 1
NaiveMultiplyImpl_EmptyIsOne(a, b) ==
    IF Len(a) = 0 THEN b
    ELSE IF Len(b) = 0 THEN a
    ELSE [k \in 1..(Len(a) + Len(b) - 1) |-> NaiveOuter(a, b, 0, k - 1, Zero)]

\* result = vec![0.0; n + m - 1], then the loop nest
NaiveMultiplyImpl(a, b) ==
    IF Len(a) = 0 \/ Len(b) = 0 THEN <<>>
    ELSE [k \in 1..(Len(a) + Len(b) - 1) |-> NaiveOuter(a, b, 0, k - 1, Zero)]

(* ------------------------------ operands ------------------------------- *)
ToCoeffs(ints) == [i \in 1..Len(ints) |-> FromInt(ints[i])]

Ones(n) == [i \in 1..n |-> 1]

Alternating(n) == [i \in 1..n |-> IF i % 2 = 1 THEN 1 ELSE -1]

Leading(n) == [i \in 1..n |-> IF i = n THEN 1 ELSE 0]

Dense == UNION {[1..n -> {0, 1}] : n \in 0..MaxDense}

TestVectors == {<<1, 2, 3>>, <<4, 5, 6>>, <<1, 2, 3, 4>>, <<5, 6, 7, 8>>,
                <<1, 1, 1>>, <<1, 1>>, <<5>>, <<7>>, <<0>>, <<>>}

RawVectors == Dense \cup TestVectors
              \cup {Ones(n) : n \in 1..MaxLen}
              \cup {Alternating(n) : n \in 1..MaxLen}
              \cup {Leading(n) : n \in 1..MaxLen}

\* requested thresholds: zero, below, at and above the minimum
Thresholds == {0, 1, MinThreshold, MaxThr}

Ranges == {<<-RangeMax, RangeMax>>, <<RangeMax, -RangeMax>>}

(* ---------------------- thresholded_multiply_impl ---------------------- *)
\* variant: the minimum is taken to be 3
EffectiveThreshold_Min3(t) == Max(t, 3)

\* variant: max(threshold - 1, 5) in wrapping arithmetic, so that a requested
\* threshold of 0 becomes the largest usize and no call ever splits
EffectiveThreshold_WrappingDecrement(t) ==
    IF t = 0 THEN 2147483647 ELSE Max(t - 1, MinThreshold)

\* let thr = std::cmp::max(threshold, 5)
EffectiveThreshold(t) == Max(t, MinThreshold)

\* variant: the base case is taken only when both operands are short
Splits_BothShort(n, m, thr) == ~(n < thr /\ m < thr)

\* the threshold check: the call splits unless n < thr || m < thr
Splits(n, m, thr) == ~(n < thr \/ m < thr)

\* variant: n / 3 + 1, one too many when 3 divides n
NChunk_FloorPlusOne(n) == n \div 3 + 1

\* let n_chunk = (n + 2) / 3
NChunk(n) == (n + 2) \div 3

\* part c (0, 1, 2) of x: a vector of n_chunk zeros overwritten by
\* for i in 0..n_chunk.min(len.saturating_sub(c * n_chunk)) { part[i] = x[i + c * n_chunk] }
Chunk(x, c, nc) ==
    [i \in 1..nc |-> IF i <= Min(nc, SatSub(Len(x), c * nc))
                     THEN x[i + c * nc] ELSE Zero]

\* x0 + x1 + x2
AtOne(x0, x1, x2) == [i \in 1..Len(x0) |-> RAdd(RAdd(x0[i], x1[i]), x2[i])]

\* x0 - x1 + x2
AtNegOne(x0, x1, x2) == [i \in 1..Len(x0) |-> RAdd(RSub(x0[i], x1[i]), x2[i])]

\* x0 + 2.0 * x1 + 4.0 * x2
AtTwo(x0, x1, x2) ==
    [i \in 1..Len(x0) |->
        RAdd(RAdd(x0[i], RMul(FromInt(2), x1[i])), RMul(FromInt(4), x2[i]))]

\* x0 - 2.0 * x1 + 4.0 * x2
AtNegTwo(x0, x1, x2) ==
    [i \in 1..Len(x0) |->
        RAdd(RSub(x0[i], RMul(FromInt(2), x1[i])), RMul(FromInt(4), x2[i]))]

\* the three parts x0, x1, x2 of one operand
Parts(x, nc) == <<Chunk(x, 0, nc), Chunk(x, 1, nc), Chunk(x, 2, nc)>>

\* the values at 0, 1, -1, 2, -2 of the three parts of one operand; the
\* value at 0 is x0 itself
Evaluations(px) ==
    <<px[1], AtOne(px[1], px[2], px[3]), AtNegOne(px[1], px[2], px[3]),
      AtTwo(px[1], px[2], px[3]), AtNegTwo(px[1], px[2], px[3])>>

\* c0 .. c4 from the five values v0 .. v4 at one position
Interpolate(v0, v1, v2, v3, v4) ==
    << v0,
       RSub(RSub(RDiv(RSub(v1, v2), 2), RDiv(RSub(v3, v4), 12)), v0),
       RSub(RSub(RDiv(RAdd(v1, v2), 2), v0), RDiv(RAdd(v3, v4), 6)),
       RSub(RDiv(RSub(v3, v4), 6), RDiv(RSub(v1, v2), 6)),
       RAdd(RSub(RDiv(RAdd(v3, v4), 24), RDiv(RAdd(v1, v2), 24)), RDiv(v0, 24)) >>

\* what add_to_result(pos, val) does to result[k], whose value before the
\* call is acc; k ranges over the positions below result_len, so a pos at or
\* past result_len changes nothing
AddToResult(k, acc, pos, val) == IF pos = k THEN RAdd(acc, val) ELSE acc

\* if i < p.len() { p[i] } else { 0.0 }
At(p, i) == IF i < Len(p) THEN p[i + 1] ELSE Zero

MaxCoeff(p) == Max(Max(Max(Max(Len(p[1]), Len(p[2])), Len(p[3])), Len(p[4])), Len(p[5]))

\* what the loop  for i in 0..max_coeff  over the five products p does to
\* result[k] from iteration i on
RECURSIVE RecombineLoop(_, _, _, _, _)
RecombineLoop(p, nc, i, k, acc) ==
    IF i = MaxCoeff(p) THEN acc
    ELSE LET c == Interpolate(At(p[1], i), At(p[2], i), At(p[3], i),
                              At(p[4], i), At(p[5], i))
         IN RecombineLoop(p, nc, i + 1, k,
                AddToResult(k,
                    AddToResult(k,
                        AddToResult(k,
                            AddToResult(k,
                                AddToResult(k, acc, i, c[1]),
                                i + nc, c[2]),
                            i + 2 * nc, c[3]),
                        i + 3 * nc, c[4]),
                    i + 4 * nc, c[5]))

\* result = vec![0.0; n + m - 1], then the interpolation loop
Recombine(n, m, nc, p) ==
    [k \in 1..(n + m - 1) |-> RecombineLoop(p, nc, 0, k - 1, Zero)]

(* ------------------------------- state --------------------------------- *)
VARIABLES
    pc,                 \* position of the driver
    p1, p2,             \* the operands (Polynomial.coeffs)
    threshold,          \* the threshold handed to multiply_thresholded
    naive_result,       \* p1.multiply_naive(&p2)
    cook_tooms_result,  \* p1.multiply_cook_tooms_k3(&p2)
    thr_result,         \* p1.multiply_thresholded(&p2, threshold)
    stack               \* activation records of thresholded_multiply_impl

vars == <<pc, p1, p2, threshold, naive_result, cook_tooms_result, thr_result, stack>>

\* an activation of thresholded_multiply_impl(a, b, t) at its entry; once it
\* has split, pa and pb hold the parts a0, a1, a2 and b0, b1, b2, ea and eb
\* the evaluated operands, and p the products p0 .. p4 returned so far
Entry(a, b, t) ==
    [a |-> a, b |-> b, threshold |-> t, split |-> FALSE,
     pa |-> <<>>, pb |-> <<>>, ea |-> <<>>, eb |-> <<>>, p |-> <<>>]

Thr(f) == EffectiveThreshold(f.threshold)

Top == stack[Len(stack)]

Callers == SubSeq(stack, 1, Len(stack) - 1)

Running == pc \in {"cook", "thresholded"}

Init ==
    /\ pc = "start"
    /\ p1 = <<>>
    /\ p2 = <<>>
    /\ threshold \in Thresholds
    /\ naive_result = <<>>
    /\ cook_tooms_result = <<>>
    /\ thr_result = <<>>
    /\ stack = <<>>

(* ------------------------------ actions -------------------------------- *)
\* Polynomial::new(vec![...]) for both operands, as the tests build them
Construct ==
    /\ pc = "start"
    /\ \E r1 \in RawVectors, r2 \in RawVectors :
          /\ p1' = New(ToCoeffs(r1))
          /\ p2' = New(ToCoeffs(r2))
    /\ pc' = "naive"
    /\ UNCHANGED <<threshold, naive_result, cook_tooms_result, thr_result, stack>>

\* Polynomial::random(range_min, range_max, size) for both operands, as the
\* benchmark builds them; a failed assert! ends the program
Random ==
    /\ pc = "start"
    /\ \E size \in 0..MaxLen, range \in Ranges :
          IF size > 0 /\ range[1] < range[2]
          THEN /\ \E r1 \in RawVectors, r2 \in RawVectors :
                     /\ Len(r1) = size /\ Len(r2) = size
                     /\ \A i \in 1..size : /\ range[1] <= r1[i] /\ r1[i] < range[2]
                                           /\ range[1] <= r2[i] /\ r2[i] < range[2]
                     /\ p1' = New(ToCoeffs(r1))
                     /\ p2' = New(ToCoeffs(r2))
               /\ pc' = "naive"
          ELSE /\ pc' = "panicked"
               /\ UNCHANGED <<p1, p2>>
    /\ UNCHANGED <<threshold, naive_result, cook_tooms_result, thr_result, stack>>

\* p1.multiply_naive(&p2)
MultiplyNaive ==
    /\ pc = "naive"
    /\ naive_result' = New(NaiveMultiplyImpl(p1, p2))
    /\ pc' = "cook_call"
    /\ UNCHANGED <<p1, p2, threshold, cook_tooms_result, thr_result, stack>>

\* p1.multiply_cook_tooms_k3(&p2) enters the kernel through cook_tooms_k3_impl
MultiplyCookTooms ==
    /\ pc = "cook_call"
    /\ stack' = <<Entry(p1, p2, CookThreshold)>>
    /\ pc' = "cook"
    /\ UNCHANGED <<p1, p2, threshold, naive_result, cook_tooms_result, thr_result>>

\* p1.multiply_thresholded(&p2, threshold) enters the kernel
MultiplyThresholded ==
    /\ pc = "thr_call"
    /\ stack' = <<Entry(p1, p2, threshold)>>
    /\ pc' = "thresholded"
    /\ UNCHANGED <<p1, p2, threshold, naive_result, cook_tooms_result, thr_result>>

\* the top activation returns res: to the Polynomial method that wraps it
\* with Polynomial::new, or into the caller's next product p0 .. p4, after
\* which the caller makes its next recursive call
Return(res) ==
    IF Len(stack) = 1
    THEN /\ stack' = <<>>
         /\ IF pc = "cook"
            THEN /\ cook_tooms_result' = New(res)
                 /\ pc' = "thr_call"
                 /\ UNCHANGED thr_result
            ELSE /\ thr_result' = New(res)
                 /\ pc' = "done"
                 /\ UNCHANGED cook_tooms_result
    ELSE LET caller == stack[Len(stack) - 1]
             got == Append(caller.p, res)
             resumed == [caller EXCEPT !.p = got]
             below == SubSeq(stack, 1, Len(stack) - 2)
         IN /\ stack' = IF Len(got) < 5
                        THEN below \o <<resumed,
                                        Entry(caller.ea[Len(got) + 1],
                                              caller.eb[Len(got) + 1],
                                              Thr(caller))>>
                        ELSE below \o <<resumed>>
            /\ UNCHANGED <<pc, cook_tooms_result, thr_result>>

\* n < thr || m < thr: return naive_multiply_impl(a, b)
BaseCase ==
    /\ Running
    /\ stack # <<>>
    /\ ~Top.split
    /\ ~Splits(Len(Top.a), Len(Top.b), Thr(Top))
    /\ Return(NaiveMultiplyImpl(Top.a, Top.b))
    /\ UNCHANGED <<p1, p2, threshold, naive_result>>

\* split both operands, evaluate at the five points, call for p0
Split ==
    /\ Running
    /\ stack # <<>>
    /\ ~Top.split
    /\ Splits(Len(Top.a), Len(Top.b), Thr(Top))
    /\ LET nc == NChunk(Len(Top.a))
           pa == Parts(Top.a, nc)
           pb == Parts(Top.b, nc)
           ea == Evaluations(pa)
           eb == Evaluations(pb)
       IN stack' = Callers \o
                   <<[Top EXCEPT !.split = TRUE, !.pa = pa, !.pb = pb,
                                 !.ea = ea, !.eb = eb],
                     Entry(ea[1], eb[1], Thr(Top))>>
    /\ UNCHANGED <<pc, p1, p2, threshold, naive_result, cook_tooms_result, thr_result>>

\* p0 .. p4 are there: interpolate, overlap-add, return result
Combine ==
    /\ Running
    /\ stack # <<>>
    /\ Top.split
    /\ Len(Top.p) = 5
    /\ Return(Recombine(Len(Top.a), Len(Top.b), NChunk(Len(Top.a)), Top.p))
    /\ UNCHANGED <<p1, p2, threshold, naive_result>>

Next ==
    \/ Construct
    \/ Random
    \/ MultiplyNaive
    \/ MultiplyCookTooms
    \/ MultiplyThresholded
    \/ BaseCase
    \/ Split
    \/ Combine

Spec == Init /\ [][Next]_vars

TypeOK ==
    /\ pc \in {"start", "panicked", "naive", "cook_call", "cook", "thr_call",
               "thresholded", "done"}
    /\ threshold \in Thresholds
    /\ Running <=> stack # <<>>

(* ------------------------- reference notions --------------------------- *)
RECURSIVE SumOver(_, _, _)
\* the sum of a[i] * b[j] over the index pairs in S (1-based)
SumOver(a, b, S) ==
    IF S = {} THEN Zero
    ELSE LET ij == CHOOSE x \in S : TRUE
         IN RAdd(RMul(a[ij[1]], b[ij[2]]), SumOver(a, b, S \ {ij}))

\* entry k of the product is the sum of a[i] * b[j] over i + j = k (0-based)
Convolution(a, b) ==
    IF Len(a) = 0 \/ Len(b) = 0 THEN <<>>
    ELSE [k \in 1..(Len(a) + Len(b) - 1) |->
            SumOver(a, b, {ij \in (1..Len(a)) \X (1..Len(b)) : ij[1] + ij[2] = k + 1})]

\* the frames whose five recursive calls all take the base case
LeafSplit(f) == f.split /\ ~Splits(Len(f.ea[1]), Len(f.eb[1]), Thr(f))

Frames == {stack[i] : i \in 1..Len(stack)}

AfterNaive == pc \in {"cook_call", "cook", "thr_call", "thresholded", "done"}

AfterCookTooms == pc \in {"thr_call", "thresholded", "done"}

(* ------------------------------- claims -------------------------------- *)

\* the value naive_multiply_impl has returned, to multiply_naive and to the
\* kernel's base case (the product last returned to each activation), is the
\* convolution of its operands
C3_NaiveState ==
    /\ pc = "cook_call" =>
          /\ naive_result = New(Convolution(p1, p2))
          /\ (p1 # <<>> /\ p2 # <<>>) => Len(naive_result) = Len(p1) + Len(p2) - 1
    /\ \A f \in Frames : (LeafSplit(f) /\ f.p # <<>>) =>
          LET k == Len(f.p)
          IN /\ f.p[k] = Convolution(f.ea[k], f.eb[k])
             /\ Len(f.p[k]) = Len(f.ea[k]) + Len(f.eb[k]) - 1

\* C3: naive_multiply_impl on non-empty a (length n) and b (length m) returns
\* n+m-1 entries, entry k being the sum of a[i]*b[j] over i+j = k; the call
\* leaves the operands unchanged.
C3_NaiveIsConvolution ==
    /\ []C3_NaiveState
    /\ [][pc = "naive" => (p1' = p1 /\ p2' = p2)]_vars

C3_Witness ==
    /\ pc = "cook_call"
    /\ p1 = ToCoeffs(<<1, 2, 3, 4>>)
    /\ p2 = ToCoeffs(<<5, 6, 7, 8>>)
    /\ naive_result = ToCoeffs(<<5, 16, 34, 60, 61, 52, 32>>)

\* C1: multiply_thresholded(a, b, t) with t >= 1 returns the same normalized
\* polynomial as multiply_naive(a, b).
C1_ThresholdedEqualsNaive ==
    (pc = "done" /\ threshold >= 1) => thr_result = naive_result

\* C2: for every requested threshold t <= 5, multiply_thresholded(a, b, t)
\* returns what multiply_cook_tooms_k3(a, b) returns, and every recursive
\* call of the run is handed the clamped threshold 5.
C2_ClampedIsCookTooms ==
    threshold <= MinThreshold =>
        /\ pc = "done" => thr_result = cook_tooms_result
        /\ pc = "thresholded" =>
              \A i \in 2..Len(stack) : stack[i].threshold = CookThreshold

C2_Witness ==
    /\ pc = "done"
    /\ threshold < MinThreshold
    /\ Len(p1) >= MinThreshold
    /\ Len(p2) >= MinThreshold
    /\ thr_result # <<>>

\* C4: if either operand is the zero polynomial (empty coefficients), each of
\* multiply_naive, multiply_cook_tooms_k3 and multiply_thresholded returns
\* the empty polynomial.
C4_ZeroOperand ==
    (p1 = <<>> \/ p2 = <<>>) =>
        /\ AfterNaive => naive_result = <<>>
        /\ AfterCookTooms => cook_tooms_result = <<>>
        /\ pc = "done" => thr_result = <<>>

C4_Witness ==
    /\ pc = "done"
    /\ p1 = <<>>
    /\ Len(p2) >= MinThreshold

\* C5: for non-zero operands, each of the three products has degree
\* degree(a) + degree(b).
C5_DegreeLaw ==
    (p1 # <<>> /\ p2 # <<>>) =>
        /\ AfterNaive => Degree(naive_result) = Degree(p1) + Degree(p2)
        /\ AfterCookTooms => Degree(cook_tooms_result) = Degree(p1) + Degree(p2)
        /\ pc = "done" => Degree(thr_result) = Degree(p1) + Degree(p2)

\* C6 as stated: a thresholded multiplication with threshold 0 fails at once
\* and returns no product, so it is never running and never done.
C6_ZeroThresholdFails ==
    threshold = 0 => pc \notin {"thresholded", "done"}

\* C6 as amended: with threshold 0 the call does not fail; it runs with the
\* threshold clamped to 5 in every recursive call and returns the product
\* that multiply_cook_tooms_k3 returns.
C6_ZeroThresholdClamped ==
    threshold = 0 =>
        /\ pc = "thresholded" =>
              /\ stack # <<>>
              /\ stack[1].threshold = 0
              /\ \A i \in 2..Len(stack) : stack[i].threshold = MinThreshold
        /\ pc = "done" => thr_result = cook_tooms_result

C6_Witness ==
    /\ pc = "done"
    /\ threshold = 0
    /\ Len(p1) >= MinThreshold
    /\ Len(p2) >= MinThreshold

(* the product of the split operands as a polynomial in y *)
VecAdd(x, y) == [i \in 1..Len(x) |-> RAdd(x[i], y[i])]

\* c0 .. c4: c_d is the sum of the products a_j * b_k of parts with j + k = d
TrueCoeffs(f) ==
    LET P(j, k) == Convolution(f.pa[j + 1], f.pb[k + 1])
    IN << P(0, 0),
          VecAdd(P(0, 1), P(1, 0)),
          VecAdd(VecAdd(P(0, 2), P(1, 1)), P(2, 0)),
          VecAdd(P(1, 2), P(2, 1)),
          P(2, 2) >>

Points == <<0, 1, -1, 2, -2>>

\* c0 + c1*y + c2*y^2 + c3*y^3 + c4*y^4 at position i
ValueAt(c, i, y) ==
    LET Y == FromInt(y)
        H(hi, lo) == RAdd(RMul(hi, Y), lo)
    IN H(H(H(H(c[5][i], c[4][i]), c[3][i]), c[2][i]), c[1][i])

\* C7: whenever p0 .. p4 at a position are the values at 0, 1, -1, 2, -2 of
\* c0 + c1*y + c2*y^2 + c3*y^3 + c4*y^4, the interpolation formulas return
\* exactly c0 .. c4.
C7_InterpolationRoundTrip ==
    \A f \in Frames : (LeafSplit(f) /\ Len(f.p) = 5) =>
        LET c == TrueCoeffs(f)
        IN \A i \in 1..Len(c[1]) :
              (\A k \in 1..5 : f.p[k][i] = ValueAt(c, i, Points[k]))
              => Interpolate(f.p[1][i], f.p[2][i], f.p[3][i], f.p[4][i], f.p[5][i])
                 = <<c[1][i], c[2][i], c[3][i], c[4][i], c[5][i]>>

\* the premise of C7 is met at every position of every such activation
C7_ValuesAreEvaluations ==
    \A f \in Frames : (LeafSplit(f) /\ Len(f.p) = 5) =>
        LET c == TrueCoeffs(f)
        IN \A i \in 1..Len(c[1]) :
              \A k \in 1..5 : f.p[k][i] = ValueAt(c, i, Points[k])

CeilThird(n) == CHOOSE k \in 0..n : 3 * k >= n /\ 3 * (k - 1) < n

PartitionOf(x, px, nc) ==
    /\ \A j \in 0..(Len(x) - 1) :
          /\ j \div nc \in {0, 1, 2}
          /\ px[(j \div nc) + 1][(j % nc) + 1] = x[j + 1]
    /\ \A c \in 0..2 : \A i \in 0..(nc - 1) :
          c * nc + i >= Len(x) => px[c + 1][i + 1] = Zero

\* C9: whenever the kernel splits, with chunkSize = ceil(n/3), the three
\* parts of a partition a and the three parts of b partition b; no
\* coefficient of b is left out.
C9_PartsPartition ==
    \A f \in Frames : f.split =>
        LET nc == CeilThird(Len(f.a))
        IN /\ \A c \in 1..3 : Len(f.pa[c]) = nc /\ Len(f.pb[c]) = nc
           /\ PartitionOf(f.a, f.pa, nc)
           /\ PartitionOf(f.b, f.pb, nc)

\* along the stack, a callee's operands both have ceil(n/3) < n entries, n
\* the length of its caller's first operand, and the callee is handed the
\* caller's effective threshold, which is at least 5
C10_Shrinks ==
    \A i \in 2..Len(stack) :
        LET caller == stack[i - 1]
            callee == stack[i]
        IN /\ Len(callee.a) = CeilThird(Len(caller.a))
           /\ Len(callee.b) = CeilThird(Len(caller.a))
           /\ Len(callee.a) < Len(caller.a)
           /\ callee.threshold = Max(caller.threshold, MinThreshold)
           /\ callee.threshold >= MinThreshold

\* the activation on top of the stack can always take a step: it is at its
\* entry, or it has split and holds all five products
C10_TopCanStep == stack # <<>> => (~Top.split \/ Len(Top.p) = 5)

\* an upper bound on the steps of a call whose first operand has n entries:
\* for n >= 5 it is at least 2 + 5 * StepBound(ceil(n/3))
StepBound(n) == 2 * n * n + 1

\* steps an activation still owes: all of its own if it is at its entry;
\* if it has split, its combine step and the calls it has not yet made
Owed(i) ==
    LET f == stack[i]
        pending == 5 - Len(f.p) - (IF i < Len(stack) THEN 1 ELSE 0)
    IN IF f.split THEN 1 + pending * StepBound(Len(f.ea[1]))
       ELSE StepBound(Len(f.a))

RECURSIVE OwedUpTo(_)
OwedUpTo(i) == IF i = 0 THEN 0 ELSE Owed(i) + OwedUpTo(i - 1)

\* the steps the kernel still owes; a natural number
Rank == OwedUpTo(Len(stack))

\* C10: thresholded_multiply_impl terminates for all operands and every
\* threshold, 0 included: operand length strictly decreases along every
\* recursion path at an unchanged effective threshold of at least 5, the
\* running call can always step, and every step of the kernel lowers Rank.
C10_Terminates ==
    /\ [](C10_Shrinks /\ C10_TopCanStep)
    /\ [][stack # <<>> => Rank' < Rank]_vars

C10_Witness ==
    /\ pc = "thresholded"
    /\ threshold = 0
    /\ Len(stack) = 3

====
